---- MODULE Spec2Model ----
(***************************************************************************)
(* A model of the coloring-book generator of src/src/App.tsx: the React    *)
(* state of the App component, the asynchronous handler handleGenerate     *)
(* with the requests it awaits, and the synchronous assembler downloadPDF. *)
(* One step of the model is one turn of the JavaScript event loop: a user  *)
(* event handled to its end, or the continuation of an awaited request     *)
(* run up to the next await or to the end of the handler.                  *)
(***************************************************************************)
EXTENDS Integers, Sequences, FiniteSets, TLC

\* ------------------------------------------------------------------ bounds

\* How many times handleGenerate may pass validation in one behaviour.
MaxRuns == 2

\* The largest page count handleGenerate is called with where the call is
\* taken on its own, whatever the select offers.
MaxPageCount == 7

\* The longest page sequence downloadPDF is given where the call is taken on
\* its own.
MaxDocPages == 3

\* ------------------------------------------------------- IEEE-754 numbers
\* A JavaScript number is a binary64 value.  The non-negative ones the
\* progress computation needs are modelled exactly: Zero, or a record
\* [exp, mant] whose mant is the 53-bit significand as five digits, most
\* significant first, the first of TopBits bits (its highest bit set) and
\* the other four of LimbBits bits; its value is
\*   (mant[1] * Limb^4 + ... + mant[5]) * 2^(exp - 52).

MantBits == 53
LimbBits == 12
TopBits == MantBits - 4 * LimbBits

RECURSIVE Pow2(_)
Pow2(s) == IF s <= 0 THEN 1 ELSE 2 * Pow2(s - 1)

Limb == Pow2(LimbBits)
Top == Pow2(TopBits)

Zero == [exp |-> 0, mant |-> <<>>]

RECURSIVE BitLen(_)
\* The number of binary digits of a natural number.
BitLen(q) == IF q = 0 THEN 0 ELSE 1 + BitLen(q \div 2)

RECURSIVE Inc(_)
\* A significand plus one unit in the last place; the first digit reaches
\* Top when every bit was 1.
Inc(digits) ==
  LET n    == Len(digits)
      last == digits[n]
  IN  IF n = 1 THEN <<last + 1>>
      ELSE IF last + 1 < Limb THEN [digits EXCEPT ![n] = last + 1]
      ELSE Append(Inc(SubSeq(digits, 1, n - 1)), 0)

\* Round to nearest, ties to even.  digits are the five digits of a
\* significand followed by a sixth digit of LimbBits further bits; sticky
\* tells that non-zero bits follow even those.
RoundNearestEven(digits, sticky, exp) ==
  LET keep    == SubSeq(digits, 1, 5)
      guard   == digits[6] >= Limb \div 2
      below   == sticky \/ digits[6] % (Limb \div 2) # 0
      roundUp == guard /\ (below \/ keep[5] % 2 = 1)
      up      == Inc(keep)
  IN  IF ~roundUp THEN [exp |-> exp, mant |-> keep]
      ELSE IF up[1] >= Top
           THEN [exp |-> exp + 1, mant |-> <<Top \div 2, 0, 0, 0, 0>>]
           ELSE [exp |-> exp, mant |-> up]

RECURSIVE Normalise(_, _, _)
\* num/den = (num'/den') * 2^exp with 1 <= num'/den' < 2.
Normalise(num, den, exp) ==
  IF num >= 2 * den THEN Normalise(num, 2 * den, exp + 1)
  ELSE IF num < den THEN Normalise(2 * num, den, exp - 1)
  ELSE [num |-> num, den |-> den, exp |-> exp]

RECURSIVE LongDiv(_, _, _, _)
\* count further digits of r/den (0 <= r < den) after those of acc.
LongDiv(r, den, count, acc) ==
  IF count = 0 THEN [digits |-> acc, rem |-> r]
  ELSE LongDiv((r * Limb) % den, den, count - 1,
               Append(acc, (r * Limb) \div den))

\* JavaScript k / n for natural-number operands k >= 0, n > 0.
Quot(k, n) ==
  IF k = 0 THEN Zero
  ELSE LET nm  == Normalise(k, n, 0)
           t   == nm.num * (Top \div 2)
           d   == LongDiv(t % nm.den, nm.den, 5, <<t \div nm.den>>)
       IN  RoundNearestEven(d.digits, d.rem # 0, nm.exp)

\* The number with the value of the natural number q.
FromInt(q) == Quot(q, 1)

RECURSIVE MulDigits(_, _, _)
\* The digits of digits * c + carry; the first digit is left unreduced.
MulDigits(digits, c, carry) ==
  LET n == Len(digits)
      v == digits[n] * c + carry
  IN  IF n = 1 THEN <<v>>
      ELSE Append(MulDigits(SubSeq(digits, 1, n - 1), c, v \div Limb), v % Limb)

RECURSIVE ShiftDigits(_, _, _, _)
\* The digits of rest, preceded by the s bits rem, moved s bits to the
\* right after those of acc; the s bits that fall off the end make one
\* further digit.
ShiftDigits(rest, rem, s, acc) ==
  IF rest = <<>> THEN Append(acc, rem * Pow2(LimbBits - s))
  ELSE LET v == rem * Limb + rest[1]
       IN  ShiftDigits(Tail(rest), v % Pow2(s), s, Append(acc, v \div Pow2(s)))

\* JavaScript x * c for a number x and a natural-number operand c > 0.
Times(x, c) ==
  IF x = Zero THEN Zero
  ELSE LET p == MulDigits(x.mant, c, 0)
           s == BitLen(p[1]) - TopBits
           q == ShiftDigits(Tail(p), p[1] % Pow2(s), s, <<p[1] \div Pow2(s)>>)
       IN  RoundNearestEven(q, FALSE, x.exp + s)

RECURSIVE DigitsLess(_, _)
DigitsLess(a, b) ==
  /\ a # <<>>
  /\ \/ a[1] < b[1]
     \/ a[1] = b[1] /\ DigitsLess(Tail(a), Tail(b))

\* JavaScript x < y on the numbers modelled here.
Less(x, y) ==
  IF y = Zero THEN FALSE
  ELSE IF x = Zero THEN TRUE
  ELSE \/ x.exp < y.exp
       \/ x.exp = y.exp /\ DigitsLess(x.mant, y.mant)

\* ------------------------------------------------------------ constants

MODEL_NAME == "gemini-2.5-flash-image"
PAGE_COUNT == 5


\* A colour '#rrggbb' is the sequence of its six hexadecimal digits.
TEMPLATES ==
  << [id |-> "classic",  name |-> "Classic",
      bgColor     |-> <<15, 5, 15, 5, 15, 0>>,
      textColor   |-> <<2, 8, 2, 8, 2, 8>>,
      accentColor |-> <<15, 9, 7, 3, 1, 6>>],
     [id |-> "sunshine", name |-> "Sunshine",
      bgColor     |-> <<15, 15, 15, 11, 14, 11>>,
      textColor   |-> <<9, 2, 4, 0, 0, 14>>,
      accentColor |-> <<15, 5, 9, 14, 0, 11>>],
     [id |-> "sky",      name |-> "Sky",
      bgColor     |-> <<15, 0, 15, 9, 15, 15>>,
      textColor   |-> <<0, 7, 5, 9, 8, 5>>,
      accentColor |-> <<0, 14, 10, 5, 14, 9>>],
     [id |-> "berry",    name |-> "Berry",
      bgColor     |-> <<15, 13, 15, 2, 15, 8>>,
      textColor   |-> <<9, 13, 1, 7, 4, 13>>,
      accentColor |-> <<14, 12, 4, 8, 9, 9>>] >>

\* hexToRgb: the three channels of '#rrggbb'.
hexToRgb(hex) ==
  <<16 * hex[1] + hex[2], 16 * hex[3] + hex[4], 16 * hex[5] + hex[6]>>

\* The values the page-count select offers.
PageCountOptions == {1, 2, 3, 4, 5}

\* error is string | null.
Null == "null"
ErrorMessage ==
  "Oops! Something went wrong while generating the coloring book. Please try again."

\* ------------------------------------------------------------------ inputs
\* What the user may type or pick, and what the image service may answer.

ChildNames == {"", "Aaru"}
Themes == {"", "Frozen", "Bluey"}
PickerColors == {<<0, 0, 0, 0, 0, 0>>}

\* A content part of a response: text, or inline data.
TextPart == [inline |-> FALSE, data |-> "a drawing"]
InlinePart(d) == [inline |-> TRUE, data |-> d]

\* The payloads the service may return for the request of page pageIndex of
\* invocation id: opaque strings, told apart by request and by position.
Payload(id, pageIndex, k) ==
  "r" \o ToString(id) \o "p" \o ToString(pageIndex) \o (IF k = 1 THEN "a" ELSE "b")

\* The outcomes of ai.models.generateContent for that request: the call
\* rejects, or resolves to a response without candidates or with one
\* candidate holding some content parts.
Responses(id, pageIndex) ==
  LET a == InlinePart(Payload(id, pageIndex, 1))
      b == InlinePart(Payload(id, pageIndex, 2))
  IN  {[rejected |-> TRUE, candidates |-> <<>>],
       [rejected |-> FALSE, candidates |-> <<>>]}
      \cup {[rejected |-> FALSE, candidates |-> <<[parts |-> ps]>>] :
              ps \in {<<>>, <<TextPart>>, <<a>>, <<TextPart, a>>, <<a, b>>}}

\* ------------------------------------------------------------------- state

VARIABLES
  childName, theme, pageCount,      \* useState: the form fields
  bgColor, textColor, accentColor,  \* useState: the cover colours
  isGenerating, progress, pages, error,
  runs,      \* the invocations of handleGenerate that passed validation and
             \* were not yet superseded: id -> its closure and local state
  started,   \* how many invocations passed validation so far
  saved      \* the file the step just taken handed to doc.save, or NoFile

vars == <<childName, theme, pageCount, bgColor, textColor, accentColor,
          isGenerating, progress, pages, error, runs, started, saved>>

inputs == <<childName, theme, pageCount, bgColor, textColor, accentColor>>
uiState == <<isGenerating, progress, pages, error>>

NoFile == [fileName |-> "", document |-> <<>>]

\* --------------------------------------------------- generateSinglePage

Variations(userTheme) ==
  << "A main character " \o userTheme \o " coloring page",
     "A scenic background of " \o userTheme \o " coloring page",
     "An action scene with " \o userTheme \o " coloring page",
     "A close up detail of " \o userTheme \o " coloring page",
     "A group of characters in " \o userTheme \o " coloring page" >>

\* Prompt with the index clamped to the last variation instead of wrapped.
PromptClamped(pageIndex, userTheme) ==
  "Black and white coloring book page for children. Simple line art, thick black outlines, no shading, no gradients, white background. Subject: "
  \o Variations(userTheme)[(IF pageIndex < 4 THEN pageIndex ELSE 4) + 1]
  \o ". High contrast, easy to color."

Prompt(pageIndex, userTheme) ==
  "Black and white coloring book page for children. Simple line art, thick black outlines, no shading, no gradients, white background. Subject: "
  \o Variations(userTheme)[(pageIndex % Len(Variations(userTheme))) + 1]
  \o ". High contrast, easy to color."

\* What generateSinglePage sends for a page.
Request(pageIndex, userTheme) ==
  [pageIndex |-> pageIndex, model |-> MODEL_NAME,
   prompt |-> Prompt(pageIndex, userTheme), aspectRatio |-> "1:1"]

\* response.candidates?.[0]?.content?.parts || []
PartsOf(response) ==
  IF response.candidates = <<>> THEN <<>> ELSE response.candidates[1].parts

RECURSIVE LastInline(_)
\* FirstInline with the loop over the parts run to its end, without the
\* break: the last part with inlineData wins.
LastInline(parts) ==
  IF parts = <<>> THEN ""
  ELSE IF LastInline(Tail(parts)) # "" THEN LastInline(Tail(parts))
  ELSE IF parts[1].inline THEN "data:image/png;base64," \o parts[1].data
  ELSE ""

RECURSIVE FirstInline(_)
\* The loop over the parts: '' unless a part has inlineData, else the data
\* URL of the first such part.
FirstInline(parts) ==
  IF parts = <<>> THEN ""
  ELSE IF parts[1].inline THEN "data:image/png;base64," \o parts[1].data
  ELSE FirstInline(Tail(parts))

\* Whether generateSinglePage throws for this outcome of the call.
Throws(response) == response.rejected \/ FirstInline(PartsOf(response)) = ""

\* GeneratedPage with ids counted from one.
GeneratedPageOneBased(pageIndex, userTheme, response) ==
  [id |-> pageIndex + 1, base64 |-> FirstInline(PartsOf(response)),
   prompt |-> Prompt(pageIndex, userTheme)]

\* The page generateSinglePage returns when it does not throw.
GeneratedPage(pageIndex, userTheme, response) ==
  [id |-> pageIndex, base64 |-> FirstInline(PartsOf(response)),
   prompt |-> Prompt(pageIndex, userTheme)]

\* ------------------------------------------------------- handleGenerate

\* Valid with the name alone checked.
ValidNameOnly(name, userTheme) == name # ""

\* if (!childName || !theme) return;
Valid(name, userTheme) == name # "" /\ userTheme # ""

\* NextRequests with the loop bound off by one (i <= pageCount).
NextRequestsInclusive(i, n) == IF i <= n THEN {i} ELSE {}

\* NextRequests with every remaining page requested at once, as a
\* Promise.all over the pages would.
NextRequestsAtOnce(i, n) == IF i < n THEN i..(n - 1) ELSE {}

\* The head and body of the for loop at index i: the requests the loop
\* issues before it suspends, none when i < pageCount fails.
NextRequests(i, n) == IF i < n THEN {i} ELSE {}

\* ProgressOf against the constant PAGE_COUNT instead of the page count
\* the run was started with.
ProgressOfConstant(i, n) == Times(Quot(i + 1, PAGE_COUNT), 100)

\* ProgressOf with the loop index in place of the number of pages done.
ProgressOfIndex(i, n) == Times(Quot(i, n), 100)

\* ((i + 1) / pageCount) * 100
ProgressOf(i, n) == Times(Quot(i + 1, n), 100)

\* Snapshot taken before the new page was pushed.
SnapshotBeforePush(newPages) == SubSeq(newPages, 1, Len(newPages) - 1)

\* What setPages receives: [...newPages].
Snapshot(newPages) == [k \in 1..Len(newPages) |-> newPages[k]]

RECURSIVE Ascending(_)
Ascending(S) ==
  IF S = {} THEN <<>>
  ELSE LET m == CHOOSE x \in S : \A y \in S : x <= y
       IN  <<m>> \o Ascending(S \ {m})

\* The local state of an invocation that passed validation.
NewRun(id, n, userTheme) ==
  [id |-> id, n |-> n, theme |-> userTheme, i |-> 0, newPages |-> <<>>,
   outstanding |-> {},   \* the page indices whose request is awaited
   requests |-> <<>>,    \* every request issued, in order
   callbacks |-> <<>>,   \* every setPages/setProgress pair of the loop
   failed |-> <<>>,      \* the page indices whose request threw
   status |-> "running", confetti |-> FALSE]

\* Loop reading the page count and the theme from the form as they are
\* when the loop resumes, as a handler reading them through a ref would.
LoopReadingForm(run) ==
  LET req == NextRequests(run.i, pageCount)
  IN  IF req # {}
      THEN [run EXCEPT
              !.outstanding = @ \cup req,
              !.requests = @ \o [k \in 1..Cardinality(req) |->
                                   Request(Ascending(req)[k], theme)]]
      ELSE [run EXCEPT !.status = "succeeded", !.confetti = TRUE]

\* The invocation from the head of its loop to its next suspension: it
\* issues the request of page i and awaits it, or leaves the loop, fires
\* the confetti and returns.
Loop(run) ==
  LET req == NextRequests(run.i, run.n)
  IN  IF req # {}
      THEN [run EXCEPT
              !.outstanding = @ \cup req,
              !.requests = @ \o [k \in 1..Cardinality(req) |->
                                   Request(Ascending(req)[k], run.theme)]]
      ELSE [run EXCEPT !.status = "succeeded", !.confetti = TRUE]

\* Catch with the try/catch inside the loop body: the error is noted and
\* the loop goes on with the next page.
CatchAndContinue(run) ==
  LET req == IF run.i + 1 < run.n THEN {run.i + 1} ELSE {}
  IN  IF req = {} THEN [run EXCEPT !.status = "failed"]
      ELSE [run EXCEPT !.i = @ + 1, !.outstanding = @ \cup req,
                       !.requests = Append(@, Request(run.i + 1, run.theme))]

\* catch, for an invocation whose awaited generateSinglePage threw: the
\* loop is left for good.
Catch(run) == [run EXCEPT !.status = "failed"]

\* Finally with setIsGenerating(false) as the last statement of the try
\* block instead: a failed run skips it.
FinallyOnSuccessOnly(status, current) ==
  IF status = "succeeded" THEN FALSE ELSE current

\* finally { setIsGenerating(false) }: isGenerating after a step that
\* leaves the invocation in the given status.
Finally(status, current) == IF status = "running" THEN current ELSE FALSE

\* ResetState without setPages([]): the pages shown stay.
ResetStateKeepingPages ==
  [isGenerating |-> TRUE, progress |-> Zero, pages |-> pages, error |-> Null]

\* ResetState without setError(null): the message of the last run stays.
ResetStateKeepingError ==
  [isGenerating |-> TRUE, progress |-> Zero, pages |-> <<>>, error |-> error]

\* What the four setters at the head of handleGenerate set.
ResetState ==
  [isGenerating |-> TRUE, progress |-> Zero, pages |-> <<>>, error |-> Null]

\* The invocations still suspended.
Running(rs) == {id \in DOMAIN rs : rs[id].status = "running"}

\* handleGenerate up to its first suspension.  An invocation that fails
\* validation returns at once; the others are counted, bounded by MaxRuns.
HandleGenerate ==
  /\ IF ~Valid(childName, theme)
     THEN UNCHANGED <<uiState, runs, started>>
     ELSE /\ started < MaxRuns
          /\ LET id  == started + 1
                 run == Loop(NewRun(id, pageCount, theme))
             IN  /\ runs' = [r \in Running(runs) \cup {id} |->
                               IF r = id THEN run ELSE runs[r]]
                 /\ started' = id
                 /\ isGenerating' = Finally(run.status, ResetState.isGenerating)
                 /\ progress' = ResetState.progress
                 /\ pages' = ResetState.pages
                 /\ error' = ResetState.error
  /\ saved' = NoFile
  /\ UNCHANGED inputs

\* Submit with the button left enabled during generation.
SubmitWhileGenerating == HandleGenerate

\* The form's submit button, disabled while isGenerating.
Submit == ~isGenerating /\ HandleGenerate

\* The button of the error banner, rendered while error is set.
Retry == error # Null /\ HandleGenerate

\* The awaited request of page j of invocation id settles, and
\* generateSinglePage returns a page: the loop body goes on after the
\* await, and the loop runs to its next suspension or to the end.
PageGenerated(id, j, response) ==
  /\ id \in Running(runs)
  /\ j \in runs[id].outstanding
  /\ response \in Responses(id, j)
  /\ ~Throws(response)
  /\ LET run      == runs[id]
         newPages == Append(run.newPages, GeneratedPage(j, run.theme, response))
         shown    == Snapshot(newPages)
         percent  == ProgressOf(run.i, run.n)
         next     == Loop([run EXCEPT
                             !.outstanding = @ \ {j},
                             !.newPages = newPages,
                             !.callbacks = Append(@, [pages |-> shown,
                                                      progress |-> percent]),
                             !.i = @ + 1])
     IN  /\ runs' = [runs EXCEPT ![id] = next]
         /\ pages' = shown
         /\ progress' = percent
         /\ isGenerating' = Finally(next.status, isGenerating)
  /\ saved' = NoFile
  /\ UNCHANGED <<inputs, error, started>>

\* The awaited request settles and generateSinglePage throws: catch, then
\* finally.
PageFailed(id, j, response) ==
  /\ id \in Running(runs)
  /\ j \in runs[id].outstanding
  /\ response \in Responses(id, j)
  /\ Throws(response)
  /\ LET next == Catch([runs[id] EXCEPT !.outstanding = @ \ {j},
                                        !.failed = Append(@, j)])
     IN  /\ runs' = [runs EXCEPT ![id] = next]
         /\ isGenerating' = Finally(next.status, isGenerating)
  /\ error' = ErrorMessage
  /\ saved' = NoFile
  /\ UNCHANGED <<inputs, progress, pages, started>>

\* A request settles.
Settle ==
  \E id \in DOMAIN runs : \E j \in runs[id].outstanding :
    \E response \in Responses(id, j) :
      PageGenerated(id, j, response) \/ PageFailed(id, j, response)

\* ---------------------------------------------------------- downloadPDF
\* The calls made on the jsPDF document, page by page; the page size is
\* the library's, so positions are kept as the expressions of the code.

\* CoverPage with the preview taken only when a second page exists.
CoverPagePreviewFromSecond(pgs, name, userTheme, bg, txt) ==
  LET bgRgb   == hexToRgb(bg)
      textRgb == hexToRgb(txt)
  IN  << [op |-> "rect", x |-> "0", y |-> "0", w |-> "pageWidth",
          h |-> "pageHeight", style |-> "F", color |-> bgRgb],
         [op |-> "text", text |-> name \o "'s", x |-> "pageWidth / 2",
          y |-> "80", fontSize |-> 32, color |-> textRgb],
         [op |-> "text", text |-> "Coloring Book", x |-> "pageWidth / 2",
          y |-> "105", fontSize |-> 48, color |-> textRgb],
         [op |-> "text", text |-> "Theme: " \o userTheme, x |-> "pageWidth / 2",
          y |-> "130", fontSize |-> 18, color |-> textRgb] >>
      \o (IF Len(pgs) > 1
          THEN << [op |-> "image", data |-> pgs[1].base64, x |-> "pageWidth / 4",
                   y |-> "150", w |-> "pageWidth / 2", h |-> "pageWidth / 2"] >>
          ELSE <<>>)
      \o << [op |-> "text", text |-> "Generated with AI Magic",
             x |-> "pageWidth / 2", y |-> "pageHeight - 20", fontSize |-> 12,
             color |-> textRgb] >>

CoverPage(pgs, name, userTheme, bg, txt) ==
  LET bgRgb   == hexToRgb(bg)
      textRgb == hexToRgb(txt)
  IN  << [op |-> "rect", x |-> "0", y |-> "0", w |-> "pageWidth",
          h |-> "pageHeight", style |-> "F", color |-> bgRgb],
         [op |-> "text", text |-> name \o "'s", x |-> "pageWidth / 2",
          y |-> "80", fontSize |-> 32, color |-> textRgb],
         [op |-> "text", text |-> "Coloring Book", x |-> "pageWidth / 2",
          y |-> "105", fontSize |-> 48, color |-> textRgb],
         [op |-> "text", text |-> "Theme: " \o userTheme, x |-> "pageWidth / 2",
          y |-> "130", fontSize |-> 18, color |-> textRgb] >>
      \o (IF Len(pgs) > 0
          THEN << [op |-> "image", data |-> pgs[1].base64, x |-> "pageWidth / 4",
                   y |-> "150", w |-> "pageWidth / 2", h |-> "pageWidth / 2"] >>
          ELSE <<>>)
      \o << [op |-> "text", text |-> "Generated with AI Magic",
             x |-> "pageWidth / 2", y |-> "pageHeight - 20", fontSize |-> 12,
             color |-> textRgb] >>

ColoringPage(page, name) ==
  << [op |-> "rect", x |-> "10", y |-> "10", w |-> "pageWidth - 20",
      h |-> "pageHeight - 20", style |-> "S", color |-> <<200, 200, 200>>],
     [op |-> "image", data |-> page.base64, x |-> "20",
      y |-> "(pageHeight - (pageWidth - 40)) / 2", w |-> "pageWidth - 40",
      h |-> "pageWidth - 40"],
     [op |-> "text", text |-> "Page for " \o name, x |-> "pageWidth / 2",
      y |-> "pageHeight - 15", fontSize |-> 10, color |-> <<150, 150, 150>>] >>

RECURSIVE SortedById(_)
SortedById(pgs) ==
  IF pgs = <<>> THEN <<>>
  ELSE LET k == CHOOSE a \in 1..Len(pgs) :
                  \A b \in 1..Len(pgs) : pgs[a].id <= pgs[b].id
       IN  <<pgs[k]>>
           \o SortedById(SubSeq(pgs, 1, k - 1) \o SubSeq(pgs, k + 1, Len(pgs)))

\* Assemble with the image pages laid out by ascending page id.
AssembleSortedById(pgs, name, userTheme, bg, txt) ==
  <<CoverPage(pgs, name, userTheme, bg, txt)>>
  \o [k \in 1..Len(pgs) |-> ColoringPage(SortedById(pgs)[k], name)]

\* The pages of the document: the cover, then pages.forEach.
Assemble(pgs, name, userTheme, bg, txt) ==
  <<CoverPage(pgs, name, userTheme, bg, txt)>>
  \o [k \in 1..Len(pgs) |-> ColoringPage(pgs[k], name)]

\* Whether the Results section, and with it the Download PDF button, is
\* rendered.
DownloadEnabled == Len(pages) > 0

\* downloadPDF followed by a reset of the results, as a handler that clears
\* the book once it is saved would do.
downloadPDFAndClear ==
  /\ saved' = [fileName |-> childName \o "_Coloring_Book.pdf",
               document |-> Assemble(pages, childName, theme, bgColor, textColor)]
  /\ pages' = <<>>
  /\ progress' = Zero
  /\ UNCHANGED <<inputs, isGenerating, error, runs, started>>

\* The function downloadPDF: it reads the state and calls no setter.
downloadPDF ==
  /\ saved' = [fileName |-> childName \o "_Coloring_Book.pdf",
               document |-> Assemble(pages, childName, theme, bgColor, textColor)]
  /\ UNCHANGED <<inputs, uiState, runs, started>>

\* A click on the Download PDF button.
DownloadPDF == DownloadEnabled /\ downloadPDF

\* ------------------------------------------------------------- the form

SetChildName(v) ==
  /\ childName' = v
  /\ saved' = NoFile
  /\ UNCHANGED <<theme, pageCount, bgColor, textColor, accentColor, uiState,
                 runs, started>>

\* Typing into the theme field, or clicking a preset.
SetTheme(v) ==
  /\ theme' = v
  /\ saved' = NoFile
  /\ UNCHANGED <<childName, pageCount, bgColor, textColor, accentColor, uiState,
                 runs, started>>

SetPageCount(v) ==
  /\ pageCount' = v
  /\ saved' = NoFile
  /\ UNCHANGED <<childName, theme, bgColor, textColor, accentColor, uiState,
                 runs, started>>

SelectTemplate(t) ==
  /\ bgColor' = TEMPLATES[t].bgColor
  /\ textColor' = TEMPLATES[t].textColor
  /\ accentColor' = TEMPLATES[t].accentColor
  /\ saved' = NoFile
  /\ UNCHANGED <<childName, theme, pageCount, uiState, runs, started>>

SetBgColor(c) ==
  /\ bgColor' = c
  /\ saved' = NoFile
  /\ UNCHANGED <<childName, theme, pageCount, textColor, accentColor, uiState,
                 runs, started>>

SetTextColor(c) ==
  /\ textColor' = c
  /\ saved' = NoFile
  /\ UNCHANGED <<childName, theme, pageCount, bgColor, accentColor, uiState,
                 runs, started>>

SetAccentColor(c) ==
  /\ accentColor' = c
  /\ saved' = NoFile
  /\ UNCHANGED <<childName, theme, pageCount, bgColor, textColor, uiState,
                 runs, started>>

\* An edit of a field the generation reads, or of the recipient's name.
EditFields ==
  \/ \E v \in ChildNames : SetChildName(v)
  \/ \E v \in Themes : SetTheme(v)
  \/ \E v \in PageCountOptions : SetPageCount(v)

\* An edit of the cover colours, which downloadPDF and the preview read.
EditColours ==
  \/ \E t \in 1..Len(TEMPLATES) : SelectTemplate(t)
  \/ \E c \in PickerColors : SetBgColor(c) \/ SetTextColor(c) \/ SetAccentColor(c)

\* ------------------------------------------------------- specification

Init ==
  /\ childName = ""
  /\ theme = ""
  /\ pageCount = 5
  /\ bgColor = TEMPLATES[1].bgColor
  /\ textColor = TEMPLATES[1].textColor
  /\ accentColor = TEMPLATES[1].accentColor
  /\ isGenerating = FALSE
  /\ progress = Zero
  /\ pages = <<>>
  /\ error = Null
  /\ runs = <<>>
  /\ started = 0
  /\ saved = NoFile

\* The generation pipeline under every user event but the colour
\* pickers: the colours stay those of the first template.
GenNext ==
  \/ Submit
  \/ Retry
  \/ Settle
  \/ DownloadPDF
  \/ EditFields

GenSpec == Init /\ [][GenNext]_vars

\* The whole component.
Next == GenNext \/ EditColours

Spec == Init /\ [][Next]_vars

\* handleGenerate and generateSinglePage taken on their own: called with
\* any name, theme and page count up to MaxPageCount, the requests settling
\* one after the other.
CoreInit ==
  /\ childName \in ChildNames
  /\ theme \in Themes
  /\ pageCount \in 1..MaxPageCount
  /\ bgColor = TEMPLATES[1].bgColor
  /\ textColor = TEMPLATES[1].textColor
  /\ accentColor = TEMPLATES[1].accentColor
  /\ isGenerating = FALSE
  /\ progress = Zero
  /\ pages = <<>>
  /\ error = Null
  /\ runs = <<>>
  /\ started = 0
  /\ saved = NoFile

CoreNext == Submit \/ Retry \/ Settle

CoreSpec == CoreInit /\ [][CoreNext]_vars

\* downloadPDF taken on its own: called with any page sequence of up to
\* MaxDocPages pages, in any order of their ids, and any name, theme and
\* colours.
PageSequences ==
  LET ids == 0..(MaxDocPages - 1)
      orders == {s \in UNION {[1..n -> ids] : n \in 0..MaxDocPages} :
                   \A a, b \in DOMAIN s : a # b => s[a] # s[b]}
      response(j) == [rejected |-> FALSE,
                      candidates |-> <<[parts |-> <<InlinePart(Payload(1, j, 1))>>]>>]
  IN  {[k \in DOMAIN s |-> GeneratedPage(s[k], userTheme, response(s[k]))] :
         s \in orders, userTheme \in Themes \ {""}}

AsmInit ==
  /\ childName \in ChildNames
  /\ theme \in Themes
  /\ pageCount = 5
  /\ bgColor = TEMPLATES[1].bgColor
  /\ textColor = TEMPLATES[1].textColor
  /\ accentColor = TEMPLATES[1].accentColor
  /\ isGenerating = FALSE
  /\ progress = Zero
  /\ pages \in PageSequences
  /\ error = Null
  /\ runs = <<>>
  /\ started = 0
  /\ saved = NoFile

AsmNext == downloadPDF \/ EditColours

AsmSpec == AsmInit /\ [][AsmNext]_vars

\* ------------------------------------------------------------- claims

\* The page indices of a sequence of requests or of pages.
Indices(reqs) == [k \in 1..Len(reqs) |-> reqs[k].pageIndex]
Ids(pgs) == [k \in 1..Len(pgs) |-> pgs[k].id]
UpTo(n) == [k \in 1..n |-> k - 1]

\* C1: once the request of page j of a run has failed, the run has issued
\* the requests of pages 0..j and no other (no retry of j, no page after
\* j), awaits nothing, has ended as failed, and the error message is set.
C1_FailureAborts ==
  \A id \in DOMAIN runs :
    LET r == runs[id]
    IN  r.failed # <<>> =>
          /\ Len(r.failed) = 1
          /\ Indices(r.requests) = UpTo(r.failed[1] + 1)
          /\ r.outstanding = {}
          /\ r.status = "failed"
          /\ ~r.confetti
          /\ error = ErrorMessage

\* A run of four pages or more whose third request failed.
C1_Witness ==
  \E id \in DOMAIN runs :
    /\ runs[id].failed = <<2>>
    /\ runs[id].n >= 4
    /\ runs[id].status = "failed"

\* C2: a run that ended with every request successful was started with a
\* page count among 1..5 and a non-empty theme, issued exactly pageCount
\* requests, those of pages 0..pageCount-1, and leaves pages with exactly
\* pageCount elements whose ids are 0, 1, ..., pageCount-1 in that order.
C2_AllSucceed ==
  \A id \in DOMAIN runs :
    LET r == runs[id]
    IN  r.status = "succeeded" =>
          /\ r.n \in 1..5
          /\ r.theme # ""
          /\ r.failed = <<>>
          /\ Len(r.requests) = r.n
          /\ Indices(r.requests) = UpTo(r.n)
          /\ Len(pages) = r.n
          /\ Ids(pages) = UpTo(r.n)
          /\ pages = r.newPages

\* A run of five pages that succeeded.
C2_Witness ==
  \E id \in DOMAIN runs :
    /\ runs[id].status = "succeeded"
    /\ runs[id].n = 5
    /\ Len(pages) = 5

\* C3: the requests of a run are issued in the order 0, 1, 2, ..., each
\* only after all the earlier ones have settled, so a run awaits at most
\* one request, the last one it issued.
C3_Sequential ==
  \A id \in DOMAIN runs :
    LET r       == runs[id]
        settled == Len(r.newPages) + Len(r.failed)
    IN  /\ Cardinality(r.outstanding) <= 1
        /\ Indices(r.requests) = UpTo(Len(r.requests))
        /\ Len(r.requests) <= settled + 1
        /\ r.outstanding \subseteq {Len(r.requests) - 1}
        /\ r.outstanding # {} => settled = Len(r.requests) - 1

\* A run awaiting its third request, the first two having succeeded.
C3_Witness ==
  \E id \in DOMAIN runs :
    /\ runs[id].outstanding = {2}
    /\ Len(runs[id].newPages) = 2
    /\ Len(runs[id].requests) = 3

\* C4: after a run has ended in failure, and until the next run starts,
\* downloadPDF cannot be triggered.
C4_NoDownloadAfterFailure ==
  \A id \in DOMAIN runs : runs[id].status = "failed" => ~DownloadEnabled

\* C5: while a run is in flight (isGenerating, fewer than pageCount pages
\* completed) downloadPDF cannot be triggered.
C5_NoDownloadInFlight ==
  \A id \in DOMAIN runs :
    (isGenerating /\ runs[id].status = "running"
       /\ Len(runs[id].newPages) < runs[id].n) => ~DownloadEnabled

\* C6: once a run has ended, pages holds all its pageCount pages if it
\* succeeded and none of its pages if it failed, never a proper non-empty
\* prefix.
C6_AllOrNothing ==
  \A id \in DOMAIN runs :
    /\ runs[id].status = "succeeded" => Len(pages) = runs[id].n
    /\ runs[id].status = "failed" => pages = <<>>

\* C7: the loop's setPages/setProgress pair fires once per page that was
\* generated and never for a request that failed; the k-th one of a run
\* carries exactly the pages with ids 0..k-1 in that order, which are the
\* first k pages the run generated.
C7_ProgressCallbacks ==
  \A id \in DOMAIN runs :
    LET r == runs[id]
    IN  /\ Len(r.callbacks) = Len(r.newPages)
        /\ Len(r.callbacks) + Len(r.failed) + Cardinality(r.outstanding)
             = Len(r.requests)
        /\ \A k \in 1..Len(r.callbacks) :
             /\ Ids(r.callbacks[k].pages) = UpTo(k)
             /\ r.callbacks[k].pages = SubSeq(r.newPages, 1, k)

\* A failed run that had generated three pages before.
C7_Witness ==
  \E id \in DOMAIN runs :
    /\ Len(runs[id].callbacks) = 3
    /\ runs[id].failed = <<3>>

\* C8: the progress set after page k of the n of a run is the number
\* (k / n) * 100; it is the integer 100k/n whenever n divides 100k, and 100
\* after the last page.  pages and progress show the latest pair.
C8_ProgressValue ==
  \A id \in DOMAIN runs :
    LET r == runs[id]
    IN  /\ \A k \in 1..Len(r.callbacks) :
             /\ k <= r.n
             /\ r.callbacks[k].progress = Times(Quot(k, r.n), 100)
             /\ (100 * k) % r.n = 0 =>
                  r.callbacks[k].progress = FromInt((100 * k) \div r.n)
             /\ k < r.n => Less(r.callbacks[k].progress, FromInt(100))
        /\ r.status = "succeeded" =>
             /\ Len(r.callbacks) = r.n
             /\ r.callbacks[r.n].progress = FromInt(100)
             /\ progress = FromInt(100)

\* A run of three pages that succeeded: 33.3..., 66.6..., 100.
C8_Witness ==
  \E id \in DOMAIN runs :
    /\ runs[id].status = "succeeded"
    /\ runs[id].n = 3
    /\ Len(runs[id].callbacks) = 3
    /\ progress = FromInt(100)

\* C9: whenever downloadPDF can be triggered, pages holds the ids
\* 0..Len(pages)-1, each once, in ascending order; and so did the pages of
\* every document handed to doc.save.
C9_PagesOrdered ==
  /\ DownloadEnabled => Ids(pages) = UpTo(Len(pages))
  /\ saved # NoFile =>
       /\ Len(saved.document) = Len(pages) + 1
       /\ Ids(pages) = UpTo(Len(pages))

\* A download in a second run, after the first run failed.
C9_Witness ==
  /\ saved # NoFile
  /\ started = 2
  /\ Len(pages) >= 2

\* ---------------------------------------------------------------- C10

\* The requests the service was sent are answered in the end.
GenFairSpec == GenSpec /\ WF_vars(Settle)

\* C10: whenever a run is in flight, a state follows in which no run is
\* in flight, each having ended as succeeded or as failed, and
\* isGenerating is false; and no edit of the form and no download changes
\* a run or isGenerating.
C10_RunsToCompletion ==
  /\ (Running(runs) # {}) ~> (Running(runs) = {} /\ ~isGenerating)
  /\ [][(EditFields \/ DownloadPDF) => UNCHANGED <<runs, isGenerating>>]_vars

\* A run that has ended as failed, with pages generated before, after the
\* user changed the theme and the page count it was started with.
C10_Witness ==
  \E id \in DOMAIN runs :
    /\ runs[id].status = "failed"
    /\ ~isGenerating
    /\ runs[id].theme # theme
    /\ runs[id].n # pageCount
    /\ Len(pages) >= 1

\* ---------------------------------------------------------------- C11

\* The five variation templates and the outer template, as specified.
C11_Variation(v, userTheme) ==
  CASE v = 0 -> "A main character " \o userTheme \o " coloring page"
    [] v = 1 -> "A scenic background of " \o userTheme \o " coloring page"
    [] v = 2 -> "An action scene with " \o userTheme \o " coloring page"
    [] v = 3 -> "A close up detail of " \o userTheme \o " coloring page"
    [] v = 4 -> "A group of characters in " \o userTheme \o " coloring page"

C11_Outer(clause) ==
  "Black and white coloring book page for children. Simple line art, thick black outlines, no shading, no gradients, white background. Subject: "
  \o clause \o ". High contrast, easy to color."

\* C11: the prompt sent for page i of a run, and kept in the page, is the
\* outer template around variation i mod 5 with the run's theme; two
\* requests of a run have the same prompt exactly when their indices agree
\* modulo 5.
C11_PromptRule ==
  \A id \in DOMAIN runs :
    LET r == runs[id]
    IN  /\ \A k \in 1..Len(r.requests) :
             r.requests[k].prompt =
               C11_Outer(C11_Variation(r.requests[k].pageIndex % 5, r.theme))
        /\ \A k \in 1..Len(r.newPages) :
             r.newPages[k].prompt =
               C11_Outer(C11_Variation(r.newPages[k].id % 5, r.theme))
        /\ \A k, m \in 1..Len(r.requests) :
             (r.requests[k].prompt = r.requests[m].prompt)
               <=> (r.requests[k].pageIndex % 5 = r.requests[m].pageIndex % 5)

\* A run that has sent the requests of pages 0 and 5 and of page 6.
C11_Witness ==
  \E id \in DOMAIN runs :
    /\ Len(runs[id].requests) >= 7
    /\ runs[id].requests[1].prompt = runs[id].requests[6].prompt
    /\ runs[id].requests[7].pageIndex = 6

\* ---------------------------------------------------------- C12, C13

\* The image data a page of the document draws, in drawing order.
ImagesOf(docPage) ==
  LET images == SelectSeq(docPage, LAMBDA o : o.op = "image")
  IN  [k \in 1..Len(images) |-> images[k].data]

\* The texts a page of the document writes.
TextsOf(docPage) ==
  {docPage[k].text : k \in {m \in 1..Len(docPage) : docPage[m].op = "text"}}

\* C12: the saved document has one page more than the page sequence: the
\* cover first, then for every k the image of the k-th entry of the sequence
\* on document page k + 1 (counted from one), in the sequence's own order.
C12_PageLayout ==
  saved # NoFile =>
    LET doc == saved.document
    IN  /\ Len(doc) = Len(pages) + 1
        /\ "Coloring Book" \in TextsOf(doc[1])
        /\ doc[1][1].op = "rect" /\ doc[1][1].style = "F"
        /\ \A k \in 1..Len(pages) :
             /\ ImagesOf(doc[k + 1]) = <<pages[k].base64>>
             /\ doc[k + 1][1].op = "rect" /\ doc[k + 1][1].style = "S"

\* A document saved from three pages whose ids are not ascending.
C12_Witness ==
  /\ saved # NoFile
  /\ Len(pages) = 3
  /\ pages[1].id > pages[2].id
  /\ Len(saved.document) = 4

\* C13: the cover is rendered for every page sequence, the empty one
\* included; it draws a preview exactly when the sequence is not empty, and
\* then the image of its first entry; the pages after the cover draw only
\* images of the sequence, one each.
C13_CoverAndPreview ==
  saved # NoFile =>
    LET doc == saved.document
    IN  /\ Len(doc) >= 1
        /\ {childName \o "'s", "Coloring Book", "Theme: " \o theme,
            "Generated with AI Magic"} \subseteq TextsOf(doc[1])
        /\ ImagesOf(doc[1]) =
             (IF pages = <<>> THEN <<>> ELSE <<pages[1].base64>>)
        /\ Cardinality({k \in 2..Len(doc) : ImagesOf(doc[k]) # <<>>})
             <= Len(pages)
        /\ \A k \in 2..Len(doc) :
             /\ Len(ImagesOf(doc[k])) <= 1
             /\ \A m \in 1..Len(ImagesOf(doc[k])) :
                  \E n \in 1..Len(pages) : ImagesOf(doc[k])[m] = pages[n].base64

\* A document saved from the empty page sequence: the cover alone, without
\* a preview.
C13_Witness ==
  /\ saved # NoFile
  /\ pages = <<>>
  /\ Len(saved.document) = 1
  /\ ImagesOf(saved.document[1]) = <<>>

\* ---------------------------------------------------------------- C15

\* The data of the inline payloads of a response, in the order of the parts
\* of its first candidate; none without candidates.
C15_Inline(response) ==
  LET parts == IF response.candidates = <<>> THEN <<>>
               ELSE response.candidates[1].parts
      inl   == SelectSeq(parts, LAMBDA q : q.inline)
  IN  [k \in 1..Len(inl) |-> inl[k].data]

\* C15: when a request settles with a response that carries inline
\* payloads, the page created holds the first of them as a PNG data URL;
\* when the call is rejected or the response carries none (no candidates
\* and no parts included), the request fails and no page is created.
C15_FirstPayload ==
  /\ [](\A id \in DOMAIN runs : \A k \in 1..Len(runs[id].newPages) :
          runs[id].newPages[k].base64 =
            "data:image/png;base64," \o Payload(id, runs[id].newPages[k].id, 1))
  /\ [][\A id \in DOMAIN runs : \A j \in runs[id].outstanding :
          \A response \in Responses(id, j) :
            (PageGenerated(id, j, response) \/ PageFailed(id, j, response)) =>
              IF response.rejected \/ C15_Inline(response) = <<>>
              THEN /\ runs'[id].newPages = runs[id].newPages
                   /\ runs'[id].failed = Append(runs[id].failed, j)
                   /\ runs'[id].status = "failed"
                   /\ pages' = pages
                   /\ error' = ErrorMessage
              ELSE /\ Len(runs'[id].newPages) = Len(runs[id].newPages) + 1
                   /\ runs'[id].newPages[Len(runs'[id].newPages)].base64 =
                        "data:image/png;base64," \o C15_Inline(response)[1]
                   /\ runs'[id].failed = runs[id].failed]_vars

\* A run that created a page from one response and failed on the next.
C15_Witness ==
  \E id \in DOMAIN runs :
    /\ Len(runs[id].newPages) >= 1
    /\ runs[id].failed # <<>>
    /\ pages = runs[id].newPages

\* ---------------------------------------------------------------- C16

\* C16: a step that hands a file to doc.save leaves pages, progress, error,
\* isGenerating and every user input as they were, and moves no generation
\* run: no request is issued or settled within it.
C16_DownloadFrame ==
  [][saved' # NoFile =>
       /\ UNCHANGED <<pages, progress, error, isGenerating>>
       /\ UNCHANGED <<childName, theme, pageCount, bgColor, textColor,
                      accentColor>>
       /\ UNCHANGED <<runs, started>>]_vars

\* A file saved while a run is in flight, with a page shown and a request
\* outstanding.
C16_Witness ==
  /\ saved # NoFile
  /\ isGenerating
  /\ Len(pages) >= 1
  /\ \E id \in Running(runs) : runs[id].outstanding # {}

\* ---------------------------------------------------------------- C17

\* C17: the step that starts a run leaves progress at 0, pages empty, no
\* error and isGenerating set, with the request of page 0 as the run's only
\* request and no page collected; and the pages shown are always pages of
\* the latest run, the page with id k at position k.
C17_StartsFromScratch ==
  /\ [](\A k \in 1..Len(pages) :
          /\ started >= 1
          /\ pages[k].id = k - 1
          /\ pages[k].base64 =
               "data:image/png;base64," \o Payload(started, k - 1, 1))
  /\ [][started' # started =>
          /\ progress' = Zero
          /\ pages' = <<>>
          /\ error' = Null
          /\ isGenerating'
          /\ runs'[started'].newPages = <<>>
          /\ Indices(runs'[started'].requests) = <<0>>
          /\ runs'[started'].outstanding = {0}]_vars

\* A second run just started: nothing is shown and its one request is that
\* of page 0.
C17_Witness ==
  /\ started = 2
  /\ 2 \in Running(runs)
  /\ Indices(runs[2].requests) = <<0>>
  /\ pages = <<>>
  /\ progress = Zero
  /\ error = Null
  /\ isGenerating

\* ---------------------------------------------------------------- C18

\* C18: no run, and so no request, has an empty theme or was started with
\* an empty name; while the theme or the name is empty no run starts, and
\* an invocation of handleGenerate, from the submit or the retry button,
\* leaves pages, progress, error, isGenerating and the runs as they are.
C18_Validation ==
  /\ [](\A id \in DOMAIN runs :
          /\ runs[id].theme # ""
          /\ \A k \in 1..Len(runs[id].requests) :
               runs[id].requests[k].prompt
                 # C11_Outer(C11_Variation(runs[id].requests[k].pageIndex % 5, "")))
  /\ [][(childName = "" \/ theme = "") =>
          /\ started' = started
          /\ (HandleGenerate =>
                UNCHANGED <<pages, progress, error, isGenerating, runs>>)]_vars

\* The retry button is on screen while the theme field is empty.
C18_Witness ==
  /\ error # Null
  /\ theme = ""
  /\ childName # ""
  /\ ~isGenerating
  /\ started >= 1

\* ---------------------------------------------------------------- C19

\* C19: at most one run is in flight, it awaits at most one request, and
\* isGenerating is set exactly while a run is in flight; the retry button
\* is not on screen then (error is clear).
C19_NoOverlap ==
  /\ Cardinality(Running(runs)) <= 1
  /\ \A id \in Running(runs) : Cardinality(runs[id].outstanding) <= 1
  /\ \A id \in DOMAIN runs \ Running(runs) : runs[id].outstanding = {}
  /\ isGenerating <=> Running(runs) # {}
  /\ isGenerating => error = Null

\* A second run in flight, awaiting a request, after the first has ended.
C19_Witness ==
  /\ started = 2
  /\ Running(runs) = {2}
  /\ Cardinality(runs[2].outstanding) = 1
  /\ Len(runs[2].newPages) >= 1

\* ---------------------------------------------------------------- C20

\* C20: whenever a file is saved, the theme written on its cover is the
\* theme of the prompts of the pages embedded in it.
C20_CoverThemeOfPages ==
  saved # NoFile =>
    \E t \in Themes :
      /\ "Theme: " \o t \in TextsOf(saved.document[1])
      /\ \A k \in 1..Len(pages) :
           pages[k].prompt = C11_Outer(C11_Variation(pages[k].id % 5, t))

\* ---------------------------------------------------------------- C21

\* C21: a run keeps the page count n and the theme of the form at the
\* moment it was started, whatever the form holds afterwards: it issues
\* the requests of pages 0, 1, ... and never one of a page beyond n - 1,
\* all n of them when it succeeds, each prompt built from that theme, and
\* its k-th progress value is (k / n) * 100.
C21_ParametersFixed ==
  /\ [](\A id \in DOMAIN runs :
          LET r == runs[id]
          IN  /\ Len(r.requests) <= r.n
              /\ Indices(r.requests) = UpTo(Len(r.requests))
              /\ r.status = "succeeded" => Len(r.requests) = r.n
              /\ r.status = "running" => Len(r.requests) = Len(r.newPages) + 1
              /\ \A k \in 1..Len(r.requests) :
                   r.requests[k].prompt =
                     C11_Outer(C11_Variation((k - 1) % 5, r.theme))
              /\ \A k \in 1..Len(r.callbacks) :
                   r.callbacks[k].progress = Times(Quot(k, r.n), 100))
  /\ [][/\ started' # started =>
             /\ runs'[started'].n = pageCount
             /\ runs'[started'].theme = theme
        /\ \A id \in DOMAIN runs \cap DOMAIN runs' :
             /\ runs'[id].n = runs[id].n
             /\ runs'[id].theme = runs[id].theme]_vars

\* A run of five pages that issued its fifth request after the form was
\* changed to one page and another theme.
C21_Witness ==
  \E id \in DOMAIN runs :
    /\ runs[id].n = 5
    /\ Len(runs[id].requests) = 5
    /\ pageCount = 1
    /\ theme # runs[id].theme
    /\ theme # ""

\* ---------------------------------------------------------------- C22

\* C22: progress is (Len(pages) / n) * 100 for the page count n of the
\* latest run, and 0 with no page before any run; so it is 0 exactly when
\* pages is empty, it is never above 100, and it does not decrease unless a
\* new run starts.
C22_ProgressAgreesWithPages ==
  /\ [](/\ started = 0 => pages = <<>> /\ progress = Zero
        /\ started >= 1 =>
             /\ started \in DOMAIN runs
             /\ Len(pages) <= runs[started].n
             /\ progress = Times(Quot(Len(pages), runs[started].n), 100)
        /\ (progress = Zero) <=> (pages = <<>>)
        /\ ~Less(FromInt(100), progress))
  /\ [][started' = started => ~Less(progress', progress)]_vars

\* Two of three pages shown: progress is 66.66..., between 66 and 67.
C22_Witness ==
  /\ Len(pages) = 2
  /\ started \in DOMAIN runs
  /\ runs[started].n = 3
  /\ Less(FromInt(66), progress)
  /\ Less(progress, FromInt(67))

\* ---------------------------------------------------------------- C23

\* C23: the error message is set exactly when the latest run has ended in
\* failure, so never while a run is in flight and never by a run whose
\* requests all succeeded; once set it stays until the next run starts;
\* and the confetti has fired only in runs that ended with all n requests
\* successful.
C23_ErrorAndConfetti ==
  /\ [](/\ error \in {Null, ErrorMessage}
        /\ (error # Null) <=>
             (started >= 1 /\ started \in DOMAIN runs
                /\ runs[started].status = "failed")
        /\ Running(runs) # {} => error = Null
        /\ \A id \in DOMAIN runs :
             LET r == runs[id]
             IN  /\ r.status = "succeeded" => r.failed = <<>>
                 /\ (id = started /\ r.status = "succeeded") => error = Null
                 /\ r.confetti =>
                      /\ r.status = "succeeded"
                      /\ r.failed = <<>>
                      /\ r.outstanding = {}
                      /\ Len(r.newPages) = r.n
                      /\ Ids(r.newPages) = UpTo(r.n))
  /\ [][(error # Null /\ started' = started) => error' = error]_vars

\* A second run that failed after it had generated a page, the message
\* showing and nothing in flight.
C23_Witness ==
  /\ started = 2
  /\ runs[2].status = "failed"
  /\ Len(runs[2].newPages) >= 1
  /\ error = ErrorMessage
  /\ ~isGenerating

====
